---- MODULE Spec2Model ----
(***************************************************************************)
(* A model of main_postgresql.py: the FastAPI request handlers of the      *)
(* REDMANE data-catalogue API and the PostgreSQL store they talk to.       *)
(*                                                                         *)
(* A request is a small sequential process: it opens a connection, issues  *)
(* its statements one at a time, assembles the response in memory and      *)
(* ends.  Every statement is one action; the in-memory loops between two   *)
(* statements are operators evaluated inside the action that follows the   *)
(* fetch.  The store is the committed tables plus, per connection, the     *)
(* writes of its open transaction.                                         *)
(***************************************************************************)
EXTENDS Integers, Sequences, FiniteSets, TLC

VARIABLES
    db,       \* the committed tables and the serial counters
    tx,       \* per request: the uncommitted writes of its connection
    conn,     \* per request: "none" | "open" | "closed"
    handler,  \* per request: the route function that runs
    args,     \* per request: the handler's parameters
    pc,       \* per request: the position inside the handler
    loc,      \* per request: the handler's local variables
    log,      \* per request: the statements executed so far
    fault,    \* per request: the store-layer failure it met, if any
    resp,     \* per request: the HTTP outcome
    db0,      \* per request: the committed tables when the request began
    prev      \* the update_metadata call answered last, if it was the last request

vars == <<db, tx, conn, handler, args, pc, loc, log, fault, resp, db0, prev>>

(***************************************************************************)
(* Bounds of the model.                                                    *)
(***************************************************************************)
Reqs == {1, 2}             \* request slots
SeqReqs == {1}             \* the slot used when requests run one at a time
MaxInserts == 2            \* datasets_metadata rows the requests may create
MaxFiles == 2              \* files rows the requests may create
MaxBatch == 2              \* files in one add_raw_files request

(***************************************************************************)
(* Python values as they come out of a RealDictCursor row.                 *)
(***************************************************************************)
PyNone == [t |-> "none"]
PyInt(n) == [t |-> "int", v |-> n]
PyStr(s) == [t |-> "str", v |-> s]

\* bool(x) of a value read from a row, a model field or a variable
Truthy(x) ==
    /\ x.t # "none"
    /\ x.t = "int" => x.v # 0
    /\ x.t = "str" => x.v # ""

Range(s) == {s[i] : i \in DOMAIN s}

\* All the orders in which the elements of the finite set S can be listed.
Orders(S) ==
    {s \in [1..Cardinality(S) -> S] : \A i, j \in DOMAIN s : i # j => s[i] # s[j]}

(***************************************************************************)
(* psycopg2.extras.RealDictCursor: a fetched row is a dict keyed by the    *)
(* result's column names.  PostgreSQL names the output column of "pm.id"   *)
(* just "id"; an "AS" alias renames it.  When two output columns share a   *)
(* name the dict keeps the value of the last one.                          *)
(***************************************************************************)
RealDictRow(cols, vals) ==
    [k \in Range(cols) |->
        vals[CHOOSE i \in DOMAIN cols :
                /\ cols[i] = k
                /\ \A j \in DOMAIN cols : cols[j] = k => j <= i]]

\* row[key] raises KeyError when the dict has no such key
HasKey(row, key) == key \in DOMAIN row

(***************************************************************************)
(* The store.  A table is the set of its rows; files_metadata, whose       *)
(* INSERT names no key column, is a heap that may hold equal rows.         *)
(* Serial counters are not transactional: an id drawn by an INSERT that    *)
(* is later rolled back is not handed out again.                           *)
(***************************************************************************)
KeySize == "raw_file_extension_size_of_all_files"
KeyLast == "last_size_update"

NoTx == [files |-> {}, files_metadata |-> <<>>, dm_ins |-> {}, dm_upd |-> {}]

\* datasets_metadata as the connection of request r sees it: the committed
\* rows with its own UPDATEs applied, and its own INSERTs
ViewDm(r) ==
    {IF \E u \in tx[r].dm_upd : u[1] = row.id
        THEN [row EXCEPT !.value = (CHOOSE u \in tx[r].dm_upd : u[1] = row.id)[2]]
        ELSE row : row \in db.datasets_metadata}
    \cup tx[r].dm_ins

ViewFiles(r) == db.files \cup tx[r].files
ViewFilesMetadata(r) == db.files_metadata \o tx[r].files_metadata

\* conn.commit(): the transaction's writes become the committed tables
Committed(r) ==
    [db EXCEPT !.datasets_metadata = ViewDm(r),
               !.files = ViewFiles(r),
               !.files_metadata = ViewFilesMetadata(r)]

(***************************************************************************)
(* How a handler ends.                                                     *)
(***************************************************************************)
NoResp == [status |-> 0, detail |-> <<>>, body |-> <<>>]
NoFault == [kind |-> "none", msg |-> ""]

\* The handler leaves with the given HTTP outcome; c is the connection's
\* state at that moment and f the store-layer failure that caused it.
Ends(r, status, detail, body, c, f) ==
    /\ resp' = [resp EXCEPT ![r] = [status |-> status, detail |-> detail, body |-> body]]
    /\ pc' = [pc EXCEPT ![r] = "done"]
    /\ conn' = [conn EXCEPT ![r] = c]
    /\ fault' = [fault EXCEPT ![r] = f]

\* return <body>: HTTP 200
Returns(r, body, c) == Ends(r, 200, <<>>, body, c, NoFault)

\* A faulty variant of DatabaseError: the message of the store is not passed on.
DatabaseErrorHidden(r, e) ==
    Ends(r, 500, <<"Database error: ", "">>, <<>>, conn[r], [kind |-> "query", msg |-> e])

\* except psycopg2.Error as e: raise HTTPException(500, f"Database error: {e}")
\* The clause closes nothing: the connection stays as it was.
DatabaseError(r, e) ==
    Ends(r, 500, <<"Database error: ", e>>, <<>>, conn[r], [kind |-> "query", msg |-> e])

\* An exception no clause of the handler catches (KeyError, ValueError):
\* the framework answers 500 Internal Server Error.
Uncaught(r, e, c) == Ends(r, 500, <<"Internal Server Error">>, <<>>, c, NoFault)

\* the message of a connection attempt that fails
Refused == "connection refused"

\* the message of a statement that fails because the server went away
ServerGone == "server closed the connection unexpectedly"

Logged(r, op, tbl, arg) ==
    log' = [log EXCEPT ![r] = Append(@, [op |-> op, tbl |-> tbl, arg |-> arg])]

(***************************************************************************)
(* A request arrives: the router binds the parameters and calls the        *)
(* handler, whose first statement is get_db_connection().                  *)
(***************************************************************************)
Start(r, h, a) ==
    /\ pc[r] = "idle"
    /\ handler' = [handler EXCEPT ![r] = h]
    /\ args' = [args EXCEPT ![r] = a]
    /\ pc' = [pc EXCEPT ![r] = "connect"]
    /\ loc' = [loc EXCEPT ![r] =
                 IF h = "add_raw_files" THEN [i |-> 1, j |-> 1, raw_file_id |-> 0] ELSE <<>>]
    /\ db0' = [db0 EXCEPT ![r] = db]
    /\ UNCHANGED <<db, tx, conn, log, fault, resp, prev>>

\* A faulty variant of FirstStep: update_metadata upserts the size key whether
\* or not raw_file_size is empty.
FirstStepNoSkip(h, a) ==
    CASE h = "update_metadata" -> "um_select_size"
      [] h = "get_dataset_with_metadata" -> "gdm_dataset"
      [] h = "get_datasets" -> "gd_query"
      [] h = "get_projects" -> "gp_query"
      [] h = "get_patients_metadata" -> "gpm_patients"
      [] h = "get_samples_per_patient" -> "gsp_query"
      [] h = "get_patients" -> "gpc_query"
      [] h = "get_raw_files_with_metadata" -> "grf_files"
      [] h = "add_raw_files" -> IF a.raw_files = <<>> THEN "arf_commit" ELSE "arf_file"
      [] OTHER -> "done"

\* Where a handler goes once it holds a connection and a cursor.
FirstStep(h, a) ==
    CASE h = "update_metadata" ->
            IF Truthy(PyStr(a.raw_file_size)) THEN "um_select_size"
            ELSE IF Truthy(PyStr(a.last_size_update)) THEN "um_select_last"
            ELSE "um_commit"
      [] h = "get_dataset_with_metadata" -> "gdm_dataset"
      [] h = "get_datasets" -> "gd_query"
      [] h = "get_projects" -> "gp_query"
      [] h = "get_patients_metadata" -> "gpm_patients"
      [] h = "get_samples_per_patient" -> "gsp_query"
      [] h = "get_patients" -> "gpc_query"
      [] h = "get_raw_files_with_metadata" -> "grf_files"
      [] h = "add_raw_files" -> IF a.raw_files = <<>> THEN "arf_commit" ELSE "arf_file"
      [] OTHER -> "done"

\* get_db_connection(): psycopg2.connect succeeds, or fails and the helper
\* raises HTTPException(500, f"Database connection error: {e}"), which the
\* handler's "except psycopg2.Error" does not catch.
GetDbConnection(r) ==
    /\ pc[r] = "connect"
    /\ \E up \in BOOLEAN :
          IF up
          THEN /\ conn' = [conn EXCEPT ![r] = "open"]
               /\ pc' = [pc EXCEPT ![r] = FirstStep(handler[r], args[r])]
               /\ UNCHANGED <<fault, resp>>
          ELSE Ends(r, 500, <<"Database connection error: ", Refused>>,
                    <<>>, "none", [kind |-> "connect", msg |-> Refused])
    /\ UNCHANGED <<db, tx, handler, args, loc, log, db0, prev>>

\* The response is sent and the handler's frame is dropped.  A connection
\* the handler left open is closed when its object is collected, and the
\* server rolls its transaction back.
Respond(r) ==
    /\ pc[r] = "done"
    /\ prev' = IF handler[r] = "update_metadata" /\ resp[r].status = 200
               THEN <<args[r]>> ELSE <<>>
    /\ pc' = [pc EXCEPT ![r] = "idle"]
    /\ conn' = [conn EXCEPT ![r] = "none"]
    /\ tx' = [tx EXCEPT ![r] = NoTx]
    /\ loc' = [loc EXCEPT ![r] = <<>>]
    /\ log' = [log EXCEPT ![r] = <<>>]
    /\ fault' = [fault EXCEPT ![r] = NoFault]
    /\ resp' = [resp EXCEPT ![r] = NoResp]
    /\ handler' = [handler EXCEPT ![r] = "none"]
    /\ args' = [args EXCEPT ![r] = <<>>]
    /\ db0' = [db0 EXCEPT ![r] = db]
    /\ UNCHANGED db

(***************************************************************************)
(* update_metadata: PUT /datasets_metadata/size_update                     *)
(***************************************************************************)
UmKey(p) == IF p \in {"um_select_size", "um_write_size"} THEN KeySize ELSE KeyLast

UmValue(p, a) ==
    IF p \in {"um_select_size", "um_write_size"} THEN a.raw_file_size ELSE a.last_size_update

\* the statement that follows the upsert of one key
UmAfter(p, a) ==
    IF p = "um_write_size" /\ Truthy(PyStr(a.last_size_update))
    THEN "um_select_last" ELSE "um_commit"

\* A faulty variant of UmFound: the existence check misses every row.
UmFoundNone(rows, key, dataset_id) == {}

\* SELECT id, value FROM datasets_metadata WHERE key = <key> AND dataset_id = %s
UmFound(rows, key, dataset_id) ==
    {row \in rows : row.key = key /\ row.dataset_id = dataset_id}

\* record = cursor.fetchone(): one matching row, whichever the scan meets first
UmSelect(r) ==
    /\ pc[r] \in {"um_select_size", "um_select_last"}
    /\ LET key == UmKey(pc[r])
           found == UmFound(ViewDm(r), key, args[r].dataset_id)
           records == IF found = {} THEN {<<>>} ELSE {<<row>> : row \in found}
       IN \E fail \in BOOLEAN, record \in records :
            IF fail
            THEN /\ DatabaseError(r, ServerGone)
                 /\ UNCHANGED <<loc, log>>
            ELSE /\ loc' = [loc EXCEPT ![r] = [record |-> record]]
                 /\ Logged(r, "SELECT", "datasets_metadata", PyStr(key))
                 /\ pc' = [pc EXCEPT ![r] =
                              IF pc[r] = "um_select_size" THEN "um_write_size"
                              ELSE "um_write_last"]
                 /\ UNCHANGED <<conn, fault, resp>>
    /\ UNCHANGED <<db, tx, handler, args, db0, prev>>

\* UPDATE datasets_metadata SET value = %s WHERE id = %s, on the
\* connection's own view of the table
UpdatedTx(t, id, value) ==
    IF \E row \in t.dm_ins : row.id = id
    THEN [t EXCEPT !.dm_ins =
            {IF row.id = id THEN [row EXCEPT !.value = value] ELSE row : row \in @}]
    ELSE [t EXCEPT !.dm_upd = {u \in @ : u[1] # id} \cup {<<id, value>>}]

\* INSERT INTO datasets_metadata (dataset_id, key, value) VALUES (...)
InsertedTx(t, id, dataset_id, key, value) ==
    [t EXCEPT !.dm_ins = @ \cup
        {[id |-> id, dataset_id |-> dataset_id, key |-> key, value |-> value]}]

\* The row is held by the uncommitted UPDATE of another connection: an
\* UPDATE of the same row waits until that transaction ends.
RowLocked(r, id) ==
    \E q \in Reqs \ {r} : \E u \in tx[q].dm_upd : u[1] = id

\* if record: UPDATE ... else: INSERT ...
UmWrite(r) ==
    /\ pc[r] \in {"um_write_size", "um_write_last"}
    /\ LET key == UmKey(pc[r])
           value == UmValue(pc[r], args[r])
           record == loc[r].record
       IN \E fail \in BOOLEAN :
            IF fail
            THEN /\ DatabaseError(r, ServerGone)
                 /\ UNCHANGED <<db, tx, log>>
            ELSE /\ IF record # <<>>
                    THEN /\ ~RowLocked(r, record[1].id)
                         /\ tx' = [tx EXCEPT ![r] = UpdatedTx(@, record[1].id, value)]
                         /\ Logged(r, "UPDATE", "datasets_metadata", PyStr(key))
                         /\ UNCHANGED db
                    ELSE /\ tx' = [tx EXCEPT ![r] =
                                     InsertedTx(@, db.dm_seq, args[r].dataset_id, key, value)]
                         /\ db' = [db EXCEPT !.dm_seq = @ + 1]
                         /\ Logged(r, "INSERT", "datasets_metadata", PyStr(key))
                 /\ pc' = [pc EXCEPT ![r] = UmAfter(pc[r], args[r])]
                 /\ UNCHANGED <<conn, fault, resp>>
    /\ UNCHANGED <<handler, args, loc, db0, prev>>

\* conn.commit(); conn.close(); return update
UmCommit(r) ==
    /\ pc[r] = "um_commit"
    /\ \E fail \in BOOLEAN :
          IF fail
          THEN /\ DatabaseError(r, ServerGone)
               /\ UNCHANGED <<db, tx>>
          ELSE /\ db' = Committed(r)
               /\ tx' = [tx EXCEPT ![r] = NoTx]
               /\ Returns(r, args[r], "closed")
    /\ UNCHANGED <<handler, args, loc, log, db0, prev>>

(***************************************************************************)
(* get_dataset_with_metadata: GET /datasets_with_metadata/{dataset_id}     *)
(***************************************************************************)
\* A faulty variant of GdmFound: the lookup forgets the project.
GdmFoundAnyProject(datasets, dataset_id, project_id) ==
    {d \in datasets : d.id = dataset_id}

\* SELECT id, project_id, name FROM datasets WHERE id = %s AND project_id = %s
GdmFound(datasets, dataset_id, project_id) ==
    {d \in datasets : d.id = dataset_id /\ d.project_id = project_id}

\* dataset_row = cursor.fetchone()
\* if not dataset_row: raise HTTPException(404), which leaves the handler
\* past "except psycopg2.Error" with the connection as it is
GdmDataset(r) ==
    /\ pc[r] = "gdm_dataset"
    /\ LET found == GdmFound(db.datasets, args[r].dataset_id, args[r].project_id)
           rows == IF found = {} THEN {<<>>} ELSE {<<d>> : d \in found}
       IN \E fail \in BOOLEAN, dataset_row \in rows :
            IF fail
            THEN /\ DatabaseError(r, ServerGone)
                 /\ UNCHANGED <<loc, log>>
            ELSE /\ Logged(r, "SELECT", "datasets", PyInt(args[r].dataset_id))
                 /\ IF dataset_row = <<>>
                    THEN /\ Ends(r, 404, <<"Dataset not found">>, <<>>, conn[r], NoFault)
                         /\ UNCHANGED loc
                    ELSE /\ loc' = [loc EXCEPT ![r] = [dataset_row |-> dataset_row[1]]]
                         /\ pc' = [pc EXCEPT ![r] = "gdm_metadata"]
                         /\ UNCHANGED <<conn, fault, resp>>
    /\ UNCHANGED <<db, tx, handler, args, db0, prev>>

\* SELECT id, dataset_id, key, value FROM datasets_metadata WHERE dataset_id = %s
\* conn.close(); return the dataset with its metadata rows, in the order
\* the store gave them (the statement has no ORDER BY)
GdmMetadata(r) ==
    /\ pc[r] = "gdm_metadata"
    /\ LET found == {m \in ViewDm(r) : m.dataset_id = args[r].dataset_id}
       IN \E fail \in BOOLEAN, metadata_rows \in Orders(found) :
            IF fail
            THEN /\ DatabaseError(r, ServerGone)
                 /\ UNCHANGED log
            ELSE /\ Logged(r, "SELECT", "datasets_metadata", PyInt(args[r].dataset_id))
                 /\ Returns(r, [id |-> loc[r].dataset_row.id,
                                project_id |-> loc[r].dataset_row.project_id,
                                name |-> loc[r].dataset_row.name,
                                metadata |-> metadata_rows], "closed")
    /\ UNCHANGED <<db, tx, handler, args, loc, db0, prev>>

(***************************************************************************)
(* get_datasets: GET /datasets/{dataset_id}     get_projects: GET /projects *)
(***************************************************************************)
\* dataset_id = 0 lists the project's datasets, any other value the one
\* dataset of that id and project; conn.close() follows the fetch
GetDatasets(r) ==
    /\ pc[r] = "gd_query"
    /\ LET found == {d \in db.datasets :
                        /\ d.project_id = args[r].project_id
                        /\ args[r].dataset_id # 0 => d.id = args[r].dataset_id}
       IN \E fail \in BOOLEAN, rows \in Orders(found) :
            IF fail
            THEN /\ DatabaseError(r, ServerGone)
                 /\ UNCHANGED log
            ELSE /\ Logged(r, "SELECT", "datasets", PyInt(args[r].dataset_id))
                 /\ Returns(r, rows, "closed")
    /\ UNCHANGED <<db, tx, handler, args, loc, db0, prev>>

\* SELECT id, name, status FROM projects; conn.close()
GetProjects(r) ==
    /\ pc[r] = "gp_query"
    /\ \E fail \in BOOLEAN, rows \in Orders(db.projects) :
            IF fail
            THEN /\ DatabaseError(r, ServerGone)
                 /\ UNCHANGED log
            ELSE /\ Logged(r, "SELECT", "projects", PyNone)
                 /\ Returns(r, rows, "closed")
    /\ UNCHANGED <<db, tx, handler, args, loc, db0, prev>>

(***************************************************************************)
(* Query results.  A result is a list of RealDictRows; where the statement *)
(* orders it the list is sorted by the ORDER BY columns, and rows that     *)
(* agree on them come in any order.                                        *)
(***************************************************************************)
LexLeq(a, b) == a[1] < b[1] \/ (a[1] = b[1] /\ a[2] <= b[2])

\* items: records [ord |-> <<k1, k2>>, row |-> RealDictRow]
SortedResults(items) ==
    {[i \in DOMAIN s |-> s[i].row] :
        s \in {o \in Orders(items) :
                  \A i, j \in DOMAIN o : i < j => LexLeq(o[i].ord, o[j].ord)}}

\* a column of an outer-joined table: NULL when the join found no row
IntOrNull(m, f) == IF m = <<>> THEN PyNone ELSE PyInt(m[1][f])
StrOrNull(m, f) == IF m = <<>> THEN PyNone ELSE PyStr(m[1][f])

\* the rows of "parents LEFT JOIN children": each parent with each child,
\* or once with no child
LeftJoin(parents, children, fk) ==
    {<<x[1], <<x[2]>>>> : x \in {x \in parents \X children : x[2][fk] = x[1].id}}
    \cup {<<p, <<>>>> : p \in {p \in parents : \A c \in children : c[fk] # p.id}}

\* SELECT p.id, p.project_id, p.ext_patient_id, p.ext_patient_url,
\*        p.public_patient_id, pm.id, pm.key, pm.value
\* FROM patients p LEFT JOIN patients_metadata pm ON p.id = pm.patient_id
\* WHERE p.project_id = %s [AND p.id = %s] ORDER BY p.id
PatientColumns ==
    <<"id", "project_id", "ext_patient_id", "ext_patient_url", "public_patient_id",
      "id", "key", "value">>

PatientRows(d, project_id, patient_id) ==
    LET parents == {p \in d.patients :
                      /\ p.project_id = project_id
                      /\ patient_id # 0 => p.id = patient_id}
    IN SortedResults(
         {[ord |-> <<j[1].id, 0>>,
           row |-> RealDictRow(PatientColumns,
                      <<PyInt(j[1].id), PyInt(j[1].project_id), PyStr(j[1].ext_patient_id),
                        PyStr(j[1].ext_patient_url), j[1].public_patient_id,
                        IntOrNull(j[2], "id"), StrOrNull(j[2], "key"),
                        StrOrNull(j[2], "value")>>)] :
            j \in LeftJoin(parents, d.patients_metadata, "patient_id")})

\* SELECT s.id, s.patient_id, s.ext_sample_id, s.ext_sample_url,
\*        sm.id, sm.key, sm.value
\* FROM samples s LEFT JOIN samples_metadata sm ON s.id = sm.sample_id
\* WHERE s.patient_id = %s ORDER BY s.id
PatientSampleColumns ==
    <<"id", "patient_id", "ext_sample_id", "ext_sample_url", "id", "key", "value">>

PatientSampleRows(d, patient_id) ==
    LET parents == {x \in d.samples : PyInt(x.patient_id) = patient_id}
    IN SortedResults(
         {[ord |-> <<j[1].id, 0>>,
           row |-> RealDictRow(PatientSampleColumns,
                      <<PyInt(j[1].id), PyInt(j[1].patient_id), PyStr(j[1].ext_sample_id),
                        PyStr(j[1].ext_sample_url),
                        IntOrNull(j[2], "id"), StrOrNull(j[2], "key"),
                        StrOrNull(j[2], "value")>>)] :
            j \in LeftJoin(parents, d.samples_metadata, "sample_id")})

\* SELECT s.id AS sample_id, s.patient_id, s.ext_sample_id, s.ext_sample_url,
\*        sm.id AS metadata_id, sm.key, sm.value,
\*        p.id AS patient_id, p.project_id, p.ext_patient_id, p.ext_patient_url,
\*        p.public_patient_id
\* FROM samples s LEFT JOIN samples_metadata sm ON s.id = sm.sample_id
\*                LEFT JOIN patients p ON s.patient_id = p.id
\* WHERE p.project_id = %s [AND s.id = %s] ORDER BY s.id, sm.id
SampleColumns ==
    <<"sample_id", "patient_id", "ext_sample_id", "ext_sample_url",
      "metadata_id", "key", "value",
      "patient_id", "project_id", "ext_patient_id", "ext_patient_url", "public_patient_id">>

SampleRows(d, project_id, sample_id) ==
    LET parents == {x \in d.samples :
                      /\ \E p \in d.patients : p.id = x.patient_id /\ p.project_id = project_id
                      /\ sample_id # 0 => x.id = sample_id}
        owner(x) == CHOOSE p \in d.patients : p.id = x.patient_id
    IN SortedResults(
         {[ord |-> <<j[1].id, IF j[2] = <<>> THEN 0 ELSE j[2][1].id>>,
           row |-> RealDictRow(SampleColumns,
                      <<PyInt(j[1].id), PyInt(j[1].patient_id), PyStr(j[1].ext_sample_id),
                        PyStr(j[1].ext_sample_url),
                        IntOrNull(j[2], "id"), StrOrNull(j[2], "key"),
                        StrOrNull(j[2], "value"),
                        PyInt(owner(j[1]).id), PyInt(owner(j[1]).project_id),
                        PyStr(owner(j[1]).ext_patient_id),
                        PyStr(owner(j[1]).ext_patient_url),
                        owner(j[1]).public_patient_id>>)] :
            j \in LeftJoin(parents, d.samples_metadata, "sample_id")})

(***************************************************************************)
(* get_patients_metadata: GET /patients_metadata/{patient_id}              *)
(***************************************************************************)
PatientKeys ==
    {"id", "project_id", "ext_patient_id", "ext_patient_url", "public_patient_id"}

\* the first loop of the handler: rows[i..] folded into patients and
\* current_patient (the empty list stands for None); a subscript the row
\* does not have ends the loop with KeyError
RECURSIVE GroupPatients(_, _, _, _)
GroupPatients(rows, i, patients, current_patient) ==
    IF i > Len(rows)
    THEN [exc |-> "none", out |-> patients \o current_patient]
    ELSE LET row == rows[i]
             opens == current_patient = <<>> \/ current_patient[1].id # row["id"]
             closed == IF opens THEN patients \o current_patient ELSE patients
             opened == IF opens
                       THEN [id |-> row["id"],
                             project_id |-> row["project_id"],
                             ext_patient_id |-> row["ext_patient_id"],
                             ext_patient_url |-> row["ext_patient_url"],
                             public_patient_id |-> row["public_patient_id"],
                             samples |-> <<>>,
                             metadata |-> <<>>]
                       ELSE current_patient[1]
             child == [id |-> row["pm.id"],
                       patient_id |-> row["id"],
                       key |-> row["pm.key"],
                       value |-> row["pm.value"]]
         IN IF \E k \in PatientKeys : ~HasKey(row, k)
            THEN [exc |-> "KeyError", out |-> <<>>]
            ELSE IF ~HasKey(row, "pm.id")
            THEN [exc |-> "KeyError", out |-> <<>>]
            ELSE IF ~Truthy(row["pm.id"])
            THEN GroupPatients(rows, i + 1, closed, <<opened>>)
            ELSE IF ~HasKey(row, "pm.key") \/ ~HasKey(row, "pm.value")
            THEN [exc |-> "KeyError", out |-> <<>>]
            ELSE GroupPatients(rows, i + 1, closed,
                    <<[opened EXCEPT !.metadata = Append(@, child)]>>)

SampleKeys == {"id", "patient_id", "ext_sample_id", "ext_sample_url"}

\* the inner loop of the second pass, over one patient's sample_rows;
\* samples is patient['samples'] so far
RECURSIVE GroupPatientSamples(_, _, _, _)
GroupPatientSamples(rows, i, samples, current_sample) ==
    IF i > Len(rows)
    THEN [exc |-> "none", out |-> samples \o current_sample]
    ELSE LET row == rows[i]
             opens == current_sample = <<>> \/ current_sample[1].id # row["id"]
             closed == IF opens THEN samples \o current_sample ELSE samples
             opened == IF opens
                       THEN [id |-> row["id"],
                             patient_id |-> row["patient_id"],
                             ext_sample_id |-> row["ext_sample_id"],
                             ext_sample_url |-> row["ext_sample_url"],
                             metadata |-> <<>>]
                       ELSE current_sample[1]
             child == [id |-> row["sm.id"],
                       sample_id |-> row["id"],
                       key |-> row["sm.key"],
                       value |-> row["sm.value"]]
         IN IF \E k \in SampleKeys : ~HasKey(row, k)
            THEN [exc |-> "KeyError", out |-> <<>>]
            ELSE IF ~HasKey(row, "sm.id")
            THEN [exc |-> "KeyError", out |-> <<>>]
            ELSE IF ~Truthy(row["sm.id"])
            THEN GroupPatientSamples(rows, i + 1, closed, <<opened>>)
            ELSE IF ~HasKey(row, "sm.key") \/ ~HasKey(row, "sm.value")
            THEN [exc |-> "KeyError", out |-> <<>>]
            ELSE GroupPatientSamples(rows, i + 1, closed,
                    <<[opened EXCEPT !.metadata = Append(@, child)]>>)

\* cursor.execute(<patients query>); rows = cursor.fetchall(); the first
\* loop.  A KeyError leaves the handler before conn.close().
GpmPatients(r) ==
    /\ pc[r] = "gpm_patients"
    /\ \E fail \in BOOLEAN,
          rows \in PatientRows(db, args[r].project_id, args[r].patient_id) :
          IF fail
          THEN /\ DatabaseError(r, ServerGone)
               /\ UNCHANGED <<loc, log>>
          ELSE LET g == GroupPatients(rows, 1, <<>>, <<>>)
               IN /\ Logged(r, "SELECT", "patients", PyInt(args[r].patient_id))
                  /\ loc' = [loc EXCEPT ![r] = [rows |-> rows, patients |-> g.out, i |-> 1]]
                  /\ IF g.exc # "none"
                     THEN Uncaught(r, g.exc, conn[r])
                     ELSE /\ pc' = [pc EXCEPT ![r] = "gpm_samples"]
                          /\ UNCHANGED <<conn, fault, resp>>
    /\ UNCHANGED <<db, tx, handler, args, db0, prev>>

\* for patient in patients: the samples query of the next patient and its
\* inner loop; after the last patient conn.close() and return patients
GpmSamples(r) ==
    /\ pc[r] = "gpm_samples"
    /\ LET patients == loc[r].patients
           i == loc[r].i
       IN IF i > Len(patients)
          THEN /\ Returns(r, patients, "closed")
               /\ UNCHANGED <<loc, log>>
          ELSE \E fail \in BOOLEAN, sample_rows \in PatientSampleRows(db, patients[i].id) :
                 IF fail
                 THEN /\ DatabaseError(r, ServerGone)
                      /\ UNCHANGED <<loc, log>>
                 ELSE LET g == GroupPatientSamples(sample_rows, 1, patients[i].samples, <<>>)
                      IN /\ Logged(r, "SELECT", "samples", patients[i].id)
                         /\ IF g.exc # "none"
                            THEN /\ Uncaught(r, g.exc, conn[r])
                                 /\ UNCHANGED loc
                            ELSE /\ loc' = [loc EXCEPT ![r] =
                                              [@ EXCEPT !.patients[i].samples = g.out,
                                                        !.i = i + 1]]
                                 /\ UNCHANGED <<pc, conn, fault, resp>>
    /\ UNCHANGED <<db, tx, handler, args, db0, prev>>

(***************************************************************************)
(* get_samples_per_patient: GET /samples/{sample_id}                       *)
(***************************************************************************)
SampleDictKeys ==
    {"sample_id", "patient_id", "ext_sample_id", "ext_sample_url", "project_id",
     "ext_patient_id", "ext_patient_url", "public_patient_id"}

\* the handler's loop: rows[i..] folded into samples and current_sample
RECURSIVE GroupSamples(_, _, _, _)
GroupSamples(rows, i, samples, current_sample) ==
    IF i > Len(rows)
    THEN [exc |-> "none", out |-> samples \o current_sample]
    ELSE LET row == rows[i]
             opens == current_sample = <<>> \/ current_sample[1].id # row["sample_id"]
             closed == IF opens THEN samples \o current_sample ELSE samples
             opened == IF opens
                       THEN [id |-> row["sample_id"],
                             patient_id |-> row["patient_id"],
                             ext_sample_id |-> row["ext_sample_id"],
                             ext_sample_url |-> row["ext_sample_url"],
                             metadata |-> <<>>,
                             patient |-> [id |-> row["patient_id"],
                                          project_id |-> row["project_id"],
                                          ext_patient_id |-> row["ext_patient_id"],
                                          ext_patient_url |-> row["ext_patient_url"],
                                          public_patient_id |-> row["public_patient_id"]]]
                       ELSE current_sample[1]
             child == [id |-> row["metadata_id"],
                       sample_id |-> row["sample_id"],
                       key |-> row["sm.key"],
                       value |-> row["sm.value"]]
         IN IF \E k \in SampleDictKeys : ~HasKey(row, k)
            THEN [exc |-> "KeyError", out |-> <<>>]
            ELSE IF ~HasKey(row, "metadata_id")
            THEN [exc |-> "KeyError", out |-> <<>>]
            ELSE IF ~Truthy(row["metadata_id"])
            THEN GroupSamples(rows, i + 1, closed, <<opened>>)
            ELSE IF ~HasKey(row, "sm.key") \/ ~HasKey(row, "sm.value")
            THEN [exc |-> "KeyError", out |-> <<>>]
            ELSE GroupSamples(rows, i + 1, closed,
                    <<[opened EXCEPT !.metadata = Append(@, child)]>>)

\* cursor.execute(<samples query>); rows = cursor.fetchall(); conn.close();
\* the loop; return samples
GspQuery(r) ==
    /\ pc[r] = "gsp_query"
    /\ \E fail \in BOOLEAN,
          rows \in SampleRows(db, args[r].project_id, args[r].sample_id) :
          IF fail
          THEN /\ DatabaseError(r, ServerGone)
               /\ UNCHANGED <<loc, log>>
          ELSE LET g == GroupSamples(rows, 1, <<>>, <<>>)
               IN /\ Logged(r, "SELECT", "samples", PyInt(args[r].sample_id))
                  /\ loc' = [loc EXCEPT ![r] = [rows |-> rows]]
                  /\ IF g.exc # "none"
                     THEN Uncaught(r, g.exc, "closed")
                     ELSE Returns(r, g.out, "closed")
    /\ UNCHANGED <<db, tx, handler, args, db0, prev>>

(***************************************************************************)
(* get_patients: GET /patients/{patient_id}                                *)
(***************************************************************************)
\* SELECT patients.*, COUNT(samples.id) AS sample_count FROM patients
\* LEFT JOIN samples ON patients.id = samples.patient_id
\* WHERE patients.project_id = %s GROUP BY patients.id ORDER BY patients.id
\* The statement does not use patient_id.
PatientCountRows(d, project_id) ==
    SortedResults(
        {[ord |-> <<p.id, 0>>,
          row |-> [id |-> PyInt(p.id),
                   project_id |-> PyInt(p.project_id),
                   ext_patient_id |-> PyStr(p.ext_patient_id),
                   ext_patient_url |-> PyStr(p.ext_patient_url),
                   public_patient_id |-> p.public_patient_id,
                   sample_count |->
                       PyInt(Cardinality({x \in d.samples : x.patient_id = p.id}))]] :
         p \in {p \in d.patients : p.project_id = project_id}})

\* rows = cursor.fetchall(); conn.close(); each row copied into a dict
GetPatients(r) ==
    /\ pc[r] = "gpc_query"
    /\ \E fail \in BOOLEAN, rows \in PatientCountRows(db, args[r].project_id) :
          IF fail
          THEN /\ DatabaseError(r, ServerGone)
               /\ UNCHANGED log
          ELSE /\ Logged(r, "SELECT", "patients", PyInt(args[r].project_id))
               /\ Returns(r, rows, "closed")
    /\ UNCHANGED <<db, tx, handler, args, loc, db0, prev>>

(***************************************************************************)
(* Strings that are read as numbers.  A string of the model is opaque, so  *)
(* Chars spells out the strings the requests may send, and the two         *)
(* conversions of the program work on the characters.                      *)
(***************************************************************************)
Chars(str) ==
    CASE str = "" -> <<>>
      [] str = "1" -> <<"1">>
      [] str = "7" -> <<"7">>
      [] str = "12" -> <<"1", "2">>
      [] str = "x" -> <<"x">>

DigitValue(c) ==
    CASE c = "0" -> 0 [] c = "1" -> 1 [] c = "2" -> 2 [] c = "3" -> 3 [] c = "4" -> 4
      [] c = "5" -> 5 [] c = "6" -> 6 [] c = "7" -> 7 [] c = "8" -> 8 [] c = "9" -> 9

Digits == {"0", "1", "2", "3", "4", "5", "6", "7", "8", "9"}

IsNumeric(str) == Chars(str) # <<>> /\ \A i \in DOMAIN Chars(str) : Chars(str)[i] \in Digits

RECURSIVE DecimalValue(_)
DecimalValue(cs) ==
    IF cs = <<>> THEN 0
    ELSE 10 * DecimalValue(SubSeq(cs, 1, Len(cs) - 1)) + DigitValue(cs[Len(cs)])

\* rfm.metadata_value::integer, for a string PostgreSQL accepts
PgInteger(str) == DecimalValue(Chars(str))

\* int(sample_id), for a string Python accepts
PyIntOf(str) == DecimalValue(Chars(str))

(***************************************************************************)
(* add_raw_files: POST /add_raw_files/                                     *)
(***************************************************************************)
\* the statement that follows the INSERT of raw_files[i] or of its
\* metadata[j]: the next metadata row, the next file, or the commit
ArfAfter(raw_files, i, j) ==
    IF j < Len(raw_files[i].metadata) THEN "arf_metadata"
    ELSE IF i < Len(raw_files) THEN "arf_file"
    ELSE "arf_commit"

\* A faulty variant of ArfFile: the INSERT is committed at once, as on a
\* connection in autocommit mode.
ArfFileAutocommit(r) ==
    /\ pc[r] = "arf_file"
    /\ LET i == loc[r].i
           raw_file == args[r].raw_files[i]
       IN \E fail \in BOOLEAN :
            IF fail
            THEN /\ DatabaseError(r, ServerGone)
                 /\ UNCHANGED <<db, tx, loc, log>>
            ELSE /\ db' = [db EXCEPT !.files_seq = @ + 1,
                                     !.files = @ \cup
                              {[id |-> db.files_seq, dataset_id |-> raw_file.dataset_id,
                                path |-> raw_file.path, file_type |-> "raw"]}]
                 /\ Logged(r, "INSERT", "files", PyInt(db.files_seq))
                 /\ loc' = [loc EXCEPT ![r] =
                              [i |-> IF raw_file.metadata = <<>> THEN i + 1 ELSE i,
                               j |-> 1,
                               raw_file_id |-> db.files_seq]]
                 /\ pc' = [pc EXCEPT ![r] = ArfAfter(args[r].raw_files, i, 0)]
                 /\ UNCHANGED <<tx, conn, fault, resp>>
    /\ UNCHANGED <<handler, args, db0, prev>>

\* INSERT INTO files (dataset_id, path, file_type) VALUES (%s, %s, 'raw')
\* RETURNING id
ArfFile(r) ==
    /\ pc[r] = "arf_file"
    /\ LET i == loc[r].i
           raw_file == args[r].raw_files[i]
       IN \E fail \in BOOLEAN :
            IF fail
            THEN /\ DatabaseError(r, ServerGone)
                 /\ UNCHANGED <<db, tx, loc, log>>
            ELSE /\ tx' = [tx EXCEPT ![r].files = @ \cup
                              {[id |-> db.files_seq, dataset_id |-> raw_file.dataset_id,
                                path |-> raw_file.path, file_type |-> "raw"]}]
                 /\ db' = [db EXCEPT !.files_seq = @ + 1]
                 /\ Logged(r, "INSERT", "files", PyInt(db.files_seq))
                 /\ loc' = [loc EXCEPT ![r] =
                              [i |-> IF raw_file.metadata = <<>> THEN i + 1 ELSE i,
                               j |-> 1,
                               raw_file_id |-> db.files_seq]]
                 /\ pc' = [pc EXCEPT ![r] = ArfAfter(args[r].raw_files, i, 0)]
                 /\ UNCHANGED <<conn, fault, resp>>
    /\ UNCHANGED <<handler, args, db0, prev>>

\* INSERT INTO files_metadata (raw_file_id, metadata_key, metadata_value)
ArfMetadata(r) ==
    /\ pc[r] = "arf_metadata"
    /\ LET i == loc[r].i
           j == loc[r].j
           metadata == args[r].raw_files[i].metadata[j]
           last == j = Len(args[r].raw_files[i].metadata)
       IN \E fail \in BOOLEAN :
            IF fail
            THEN /\ DatabaseError(r, ServerGone)
                 /\ UNCHANGED <<tx, loc, log>>
            ELSE /\ tx' = [tx EXCEPT ![r].files_metadata = Append(@,
                              [raw_file_id |-> loc[r].raw_file_id,
                               metadata_key |-> metadata.metadata_key,
                               metadata_value |-> metadata.metadata_value])]
                 /\ Logged(r, "INSERT", "files_metadata", PyInt(loc[r].raw_file_id))
                 /\ loc' = [loc EXCEPT ![r] =
                              [@ EXCEPT !.i = IF last THEN i + 1 ELSE i,
                                        !.j = IF last THEN 1 ELSE j + 1]]
                 /\ pc' = [pc EXCEPT ![r] = ArfAfter(args[r].raw_files, i, j)]
                 /\ UNCHANGED <<conn, fault, resp>>
    /\ UNCHANGED <<db, handler, args, db0, prev>>

\* conn.commit(); conn.close(); return the success message
ArfCommit(r) ==
    /\ pc[r] = "arf_commit"
    /\ \E fail \in BOOLEAN :
          IF fail
          THEN /\ DatabaseError(r, ServerGone)
               /\ UNCHANGED <<db, tx>>
          ELSE /\ db' = Committed(r)
               /\ tx' = [tx EXCEPT ![r] = NoTx]
               /\ Returns(r, [status |-> "success",
                              message |-> "Raw files and metadata added successfully"],
                          "closed")
    /\ UNCHANGED <<handler, args, loc, log, db0, prev>>

(***************************************************************************)
(* get_raw_files_with_metadata: GET /raw_files_with_metadata/{dataset_id}  *)
(***************************************************************************)
\* The places of the files_metadata heap that the query keeps:
\* FROM files rf LEFT JOIN files_metadata rfm ON rf.id = rfm.raw_file_id
\* WHERE rf.dataset_id = %s AND rfm.metadata_key = 'sample_id'
GrfKept(files, files_metadata, dataset_id) ==
    {k \in DOMAIN files_metadata :
        /\ files_metadata[k].metadata_key = "sample_id"
        /\ \E f \in files : f.id = files_metadata[k].raw_file_id /\ f.dataset_id = dataset_id}

\* A faulty variant of GrfJoinSamples: an inner join with samples.
GrfJoinSamplesInner(samples, value, cast) ==
    IF cast /\ \E x \in samples : x.id = PgInteger(value)
    THEN {PyStr((CHOOSE x \in samples : x.id = PgInteger(value)).ext_sample_id)}
    ELSE {}

\* LEFT JOIN samples s ON rfm.metadata_value::integer = s.id: the values
\* s.ext_sample_id takes beside one kept row, NULL when no sample matches
GrfJoinSamples(samples, value, cast) ==
    IF cast /\ \E x \in samples : x.id = PgInteger(value)
    THEN {PyStr((CHOOSE x \in samples : x.id = PgInteger(value)).ext_sample_id)}
    ELSE {PyNone}

GrfColumns == <<"id", "path", "sample_id", "ext_sample_id">>

\* cursor.execute(query, (dataset_id,)); raw_files = cursor.fetchall()
\* The join condition casts metadata_value to integer.  The server evaluates
\* the condition for a kept row against each samples row; with no samples
\* row it evaluates it only if its plan computes the cast before probing
\* (eager).  A cast of a string that is no number fails the statement.
GrfFiles(r) ==
    /\ pc[r] = "grf_files"
    /\ LET files == ViewFiles(r)
           heap == ViewFilesMetadata(r)
           kept == GrfKept(files, heap, args[r].dataset_id)
           file(k) == CHOOSE f \in files : f.id = heap[k].raw_file_id
       IN \E fail \in BOOLEAN, eager \in BOOLEAN, order \in Orders(kept) :
            LET cast == eager \/ db.samples # {}
                joined == {k \in kept :
                             GrfJoinSamples(db.samples, heap[k].metadata_value, cast) # {}}
            IN IF fail
               THEN /\ DatabaseError(r, ServerGone)
                    /\ UNCHANGED <<loc, log>>
               ELSE IF cast /\ \E k \in kept : ~IsNumeric(heap[k].metadata_value)
               THEN /\ DatabaseError(r, "invalid input syntax for type integer")
                    /\ UNCHANGED <<loc, log>>
               ELSE /\ Logged(r, "SELECT", "files", PyInt(args[r].dataset_id))
                    /\ loc' = [loc EXCEPT ![r] =
                         [raw_files |->
                            [n \in 1..Len(SelectSeq(order, LAMBDA k : k \in joined)) |->
                               LET k == SelectSeq(order, LAMBDA q : q \in joined)[n]
                               IN RealDictRow(GrfColumns,
                                     <<PyInt(file(k).id), PyStr(file(k).path),
                                       PyStr(heap[k].metadata_value),
                                       CHOOSE e \in GrfJoinSamples(db.samples,
                                                      heap[k].metadata_value, cast) : TRUE>>)],
                          i |-> 1,
                          response |-> <<>>]]
                    /\ pc' = [pc EXCEPT ![r] = "grf_sample"]
                    /\ UNCHANGED <<conn, fault, resp>>
    /\ UNCHANGED <<db, tx, handler, args, db0, prev>>

\* for raw_file in raw_files: one turn of the loop; after the last row
\* conn.close() and return response.  int(sample_id) raises ValueError for
\* a string that is no number, which no clause of the handler catches.
GrfSample(r) ==
    /\ pc[r] = "grf_sample"
    /\ LET raw_files == loc[r].raw_files
           i == loc[r].i
       IN IF i > Len(raw_files)
          THEN /\ Returns(r, loc[r].response, "closed")
               /\ UNCHANGED <<loc, log>>
          ELSE LET raw_file == raw_files[i]
                   sample_id == raw_file["sample_id"]
               IN IF ~Truthy(sample_id)
                  THEN /\ loc' = [loc EXCEPT ![r].i = i + 1]
                       /\ UNCHANGED <<pc, conn, fault, resp, log>>
                  ELSE IF ~IsNumeric(sample_id.v)
                  THEN /\ Uncaught(r, "ValueError", conn[r])
                       /\ UNCHANGED <<loc, log>>
                  ELSE \E fail \in BOOLEAN,
                          sample_metadata_rows \in
                            Orders({m \in db.samples_metadata :
                                      m.sample_id = PyIntOf(sample_id.v)}) :
                         IF fail
                         THEN /\ DatabaseError(r, ServerGone)
                              /\ UNCHANGED <<loc, log>>
                         ELSE /\ Logged(r, "SELECT", "samples_metadata",
                                        PyInt(PyIntOf(sample_id.v)))
                              /\ loc' = [loc EXCEPT ![r] =
                                   [@ EXCEPT !.i = i + 1,
                                             !.response = Append(@,
                                                [id |-> raw_file["id"],
                                                 path |-> raw_file["path"],
                                                 sample_id |-> sample_id,
                                                 ext_sample_id |-> raw_file["ext_sample_id"],
                                                 sample_metadata |-> sample_metadata_rows])]]
                              /\ UNCHANGED <<pc, conn, fault, resp>>
    /\ UNCHANGED <<db, tx, handler, args, db0, prev>>

(***************************************************************************)
(* Stores the requests may find.  Projects, datasets, patients and samples *)
(* are loaded outside this program; files, files_metadata and              *)
(* datasets_metadata are written by it.                                    *)
(***************************************************************************)
\* datasets_metadata rows a store may hold before the first request; the
\* table has no unique constraint on (dataset_id, key), so rows 1 and 2 may
\* both be there
DmSeed ==
    {[id |-> 1, dataset_id |-> 1, key |-> KeySize, value |-> "5"],
     [id |-> 2, dataset_id |-> 1, key |-> KeySize, value |-> "7"],
     [id |-> 3, dataset_id |-> 1, key |-> "note", value |-> "n"]}

DmSeedSeq == Cardinality(DmSeed) + 1

BaseDb ==
    [projects |-> {[id |-> 1, name |-> "Alpha", status |-> "active"],
                   [id |-> 2, name |-> "Beta", status |-> "closed"]},
     datasets |-> {[id |-> 1, project_id |-> 1, name |-> "d1"],
                   [id |-> 2, project_id |-> 2, name |-> "d2"]},
     datasets_metadata |-> {},
     dm_seq |-> DmSeedSeq,
     patients |-> {},
     patients_metadata |-> {},
     samples |-> {},
     samples_metadata |-> {},
     files |-> {},
     files_seq |-> 1,
     files_metadata |-> <<>>]

DatasetStores ==
    {[BaseDb EXCEPT !.datasets_metadata = S] : S \in SUBSET DmSeed}

\* patients, samples and their metadata a store may hold: every subset of
\* the seeds in which each child row has its parent
PatientSeed ==
    {[id |-> 1, project_id |-> 1, ext_patient_id |-> "P-1", ext_patient_url |-> "u/1",
      public_patient_id |-> PyStr("pub-1")],
     [id |-> 2, project_id |-> 1, ext_patient_id |-> "P-2", ext_patient_url |-> "u/2",
      public_patient_id |-> PyNone]}

PatientMetadataSeed ==
    {[id |-> 1, patient_id |-> 1, key |-> "age", value |-> "40"],
     [id |-> 2, patient_id |-> 1, key |-> "sex", value |-> "F"],
     [id |-> 3, patient_id |-> 2, key |-> "age", value |-> "51"]}

SampleSeed ==
    {[id |-> 1, patient_id |-> 1, ext_sample_id |-> "S-1", ext_sample_url |-> "s/1"],
     [id |-> 2, patient_id |-> 1, ext_sample_id |-> "S-2", ext_sample_url |-> "s/2"],
     [id |-> 3, patient_id |-> 2, ext_sample_id |-> "S-3", ext_sample_url |-> "s/3"]}

SampleMetadataSeed ==
    {[id |-> 1, sample_id |-> 1, key |-> "tissue", value |-> "lung"],
     [id |-> 2, sample_id |-> 1, key |-> "stage", value |-> "II"],
     [id |-> 3, sample_id |-> 3, key |-> "tissue", value |-> "skin"]}

Ids(rows) == {x.id : x \in rows}

PatientStores ==
    {d \in {[BaseDb EXCEPT !.patients = P, !.patients_metadata = M,
                           !.samples = S, !.samples_metadata = N] :
              P \in SUBSET PatientSeed, M \in SUBSET PatientMetadataSeed,
              S \in SUBSET SampleSeed, N \in SUBSET SampleMetadataSeed} :
        /\ \A m \in d.patients_metadata : m.patient_id \in Ids(d.patients)
        /\ \A x \in d.samples : x.patient_id \in Ids(d.patients)
        /\ \A n \in d.samples_metadata : n.sample_id \in Ids(d.samples)}

\* the samples a store of the raw-files requests may hold; sample 1 has
\* two metadata rows and sample 12 none
FileSampleSeed ==
    {[id |-> 1, patient_id |-> 1, ext_sample_id |-> "S-1", ext_sample_url |-> "s/1"],
     [id |-> 12, patient_id |-> 1, ext_sample_id |-> "S-12", ext_sample_url |-> "s/12"]}

FileStores ==
    {[BaseDb EXCEPT !.patients = PatientSeed,
                    !.samples = S,
                    !.samples_metadata =
                        {n \in SampleMetadataSeed : n.sample_id \in Ids(S)}] :
        S \in SUBSET FileSampleSeed}

\* one store with every table filled, and the empty one
FullDb ==
    [BaseDb EXCEPT !.patients = PatientSeed,
                   !.patients_metadata = PatientMetadataSeed,
                   !.samples = SampleSeed,
                   !.samples_metadata = SampleMetadataSeed]

AllStores == {BaseDb, FullDb}

InitWith(stores) ==
    /\ db \in stores
    /\ tx = [r \in Reqs |-> NoTx]
    /\ conn = [r \in Reqs |-> "none"]
    /\ handler = [r \in Reqs |-> "none"]
    /\ args = [r \in Reqs |-> <<>>]
    /\ pc = [r \in Reqs |-> "idle"]
    /\ loc = [r \in Reqs |-> <<>>]
    /\ log = [r \in Reqs |-> <<>>]
    /\ fault = [r \in Reqs |-> NoFault]
    /\ resp = [r \in Reqs |-> NoResp]
    /\ db0 = [r \in Reqs |-> db]
    /\ prev = <<>>

\* no request is being served
Quiet == \A q \in Reqs : pc[q] = "idle"

(***************************************************************************)
(* The requests a client may send, one at a time.                          *)
(***************************************************************************)
SizeValues == {"", "5", "7"}
LastValues == {"", "t"}
DatasetIds == {1, 2}
ProjectIds == {1, 2}

\* how many of the two keys the dataset has no committed row for
MissingKeys(d) ==
    Cardinality({k \in {KeySize, KeyLast} :
                    \A row \in db.datasets_metadata : ~(row.dataset_id = d /\ row.key = k)})

\* the serial counter is capped: a call is sent only while the rows it may
\* have to create fit under MaxInserts
PutSizeUpdateOf(r, ds, sizes, lasts) ==
    /\ Quiet
    /\ \E d \in ds, s \in sizes, l \in lasts :
          /\ db.dm_seq - DmSeedSeq + MissingKeys(d) <= MaxInserts
          /\ Start(r, "update_metadata",
                   [dataset_id |-> d, raw_file_size |-> s, last_size_update |-> l])

PutSizeUpdate(r) == PutSizeUpdateOf(r, DatasetIds, SizeValues, LastValues)

GetDatasetWithMetadata(r) ==
    /\ Quiet
    /\ \E d \in DatasetIds \cup {3}, p \in ProjectIds :
          Start(r, "get_dataset_with_metadata", [dataset_id |-> d, project_id |-> p])

GetDatasetsRequest(r) ==
    /\ Quiet
    /\ \E d \in DatasetIds \cup {0}, p \in ProjectIds :
          Start(r, "get_datasets", [dataset_id |-> d, project_id |-> p])

GetProjectsRequest(r) ==
    /\ Quiet
    /\ Start(r, "get_projects", <<>>)

PatientIds == {0, 1, 2}
SampleIds == {0, 1, 3}

GetPatientsMetadataRequest(r) ==
    /\ Quiet
    /\ \E p \in ProjectIds, i \in PatientIds :
          Start(r, "get_patients_metadata", [project_id |-> p, patient_id |-> i])

GetSamplesRequest(r) ==
    /\ Quiet
    /\ \E p \in ProjectIds, i \in SampleIds :
          Start(r, "get_samples_per_patient", [project_id |-> p, sample_id |-> i])

GetPatientsRequest(r) ==
    /\ Quiet
    /\ \E p \in ProjectIds, i \in PatientIds :
          Start(r, "get_patients", [project_id |-> p, patient_id |-> i])

InitPatients == InitWith(PatientStores)

NextPatients ==
    \E r \in SeqReqs :
        \/ GetPatientsMetadataRequest(r)
        \/ GetSamplesRequest(r)
        \/ GetPatientsRequest(r)
        \/ GetDbConnection(r)
        \/ GpmPatients(r)
        \/ GpmSamples(r)
        \/ GspQuery(r)
        \/ GetPatients(r)
        \/ Respond(r)

SpecPatients == InitPatients /\ [][NextPatients]_vars

\* what a client may attach to a raw file
SampleIdValues == {"", "1", "7", "x"}

Entry(k, v) == [metadata_key |-> k, metadata_value |-> v]

MetadataLists ==
    {<<>>}
    \cup {<<Entry("sample_id", v)>> : v \in SampleIdValues}
    \cup {<<Entry("sample_id", "1"), Entry("sample_id", "1")>>,
          <<Entry("lane", "x"), Entry("sample_id", "12")>>}

FileInputs(ds, lists) ==
    {[dataset_id |-> d, path |-> "a.fq", metadata |-> m] : d \in ds, m \in lists}

Batches(ds, lists) == UNION {[1..n -> FileInputs(ds, lists)] : n \in 0..MaxBatch}

\* the serial counter is capped: a batch is sent only while its files fit
\* under MaxFiles
PostAddRawFilesOf(r, ds, lists) ==
    /\ Quiet
    /\ \E raw_files \in Batches(ds, lists) :
          /\ db.files_seq - 1 + Len(raw_files) <= MaxFiles
          /\ Start(r, "add_raw_files", [raw_files |-> raw_files])

PostAddRawFiles(r) == PostAddRawFilesOf(r, {1, 2}, MetadataLists)

GetRawFilesRequest(r) ==
    /\ Quiet
    /\ \E d \in DatasetIds :
          Start(r, "get_raw_files_with_metadata", [dataset_id |-> d])

InitFiles == InitWith(FileStores)

NextFiles ==
    \E r \in SeqReqs :
        \/ PostAddRawFiles(r)
        \/ GetRawFilesRequest(r)
        \/ GetDbConnection(r)
        \/ ArfFile(r)
        \/ ArfMetadata(r)
        \/ ArfCommit(r)
        \/ GrfFiles(r)
        \/ GrfSample(r)
        \/ Respond(r)

SpecFiles == InitFiles /\ [][NextFiles]_vars

(***************************************************************************)
(* Every route, on a filled or an empty store, with a few inputs each.     *)
(***************************************************************************)
Init == InitWith(AllStores)

Next ==
    \E r \in SeqReqs :
        \/ PostAddRawFilesOf(r, {1}, {<<>>, <<Entry("sample_id", "x")>>})
        \/ GetPatientsMetadataRequest(r)
        \/ GetSamplesRequest(r)
        \/ GetPatientsRequest(r)
        \/ GetProjectsRequest(r)
        \/ GetDatasetsRequest(r)
        \/ GetDatasetWithMetadata(r)
        \/ GetRawFilesRequest(r)
        \/ PutSizeUpdateOf(r, {1}, {"5"}, {"", "t"})
        \/ GetDbConnection(r)
        \/ ArfFile(r)
        \/ ArfMetadata(r)
        \/ ArfCommit(r)
        \/ GpmPatients(r)
        \/ GpmSamples(r)
        \/ GspQuery(r)
        \/ GetPatients(r)
        \/ GetProjects(r)
        \/ GetDatasets(r)
        \/ GdmDataset(r)
        \/ GdmMetadata(r)
        \/ GrfFiles(r)
        \/ GrfSample(r)
        \/ UmSelect(r)
        \/ UmWrite(r)
        \/ UmCommit(r)
        \/ Respond(r)

Spec == Init /\ [][Next]_vars

InitDatasets == InitWith(DatasetStores)

NextDatasets ==
    \E r \in SeqReqs :
        \/ PutSizeUpdate(r)
        \/ GetDatasetWithMetadata(r)
        \/ GetDatasetsRequest(r)
        \/ GetDbConnection(r)
        \/ UmSelect(r)
        \/ UmWrite(r)
        \/ UmCommit(r)
        \/ GdmDataset(r)
        \/ GdmMetadata(r)
        \/ GetDatasets(r)
        \/ Respond(r)

SpecDatasets == InitDatasets /\ [][NextDatasets]_vars

(***************************************************************************)
(* update_metadata is a plain def: the framework runs it on a worker       *)
(* thread, so calls overlap, each on its own connection and transaction,   *)
(* one statement at a time.  The store starts without a row for either     *)
(* key.                                                                    *)
(***************************************************************************)
ConcurrentStores ==
    {[BaseDb EXCEPT !.datasets_metadata = S] :
        S \in SUBSET {row \in DmSeed : row.key \notin {KeySize, KeyLast}}}

\* a call arrives whatever the other requests are doing; the serial counter
\* is capped: no call is sent once MaxInserts ids have been drawn
PutSizeUpdateConcurrent(r) ==
    /\ db.dm_seq - DmSeedSeq < MaxInserts
    /\ \E s \in {"", "5", "7"}, l \in LastValues :
          Start(r, "update_metadata",
                [dataset_id |-> 1, raw_file_size |-> s, last_size_update |-> l])

InitConcurrent == InitWith(ConcurrentStores)

NextConcurrent ==
    \E r \in Reqs :
        \/ PutSizeUpdateConcurrent(r)
        \/ GetDbConnection(r)
        \/ UmSelect(r)
        \/ UmWrite(r)
        \/ UmCommit(r)
        \/ Respond(r)

SpecConcurrent == InitConcurrent /\ [][NextConcurrent]_vars

(***************************************************************************)
(* Properties of update_metadata and get_dataset_with_metadata.            *)
(***************************************************************************)
AtMostOnePerKey(rows) ==
    \A m, n \in rows : (m.dataset_id = n.dataset_id /\ m.key = n.key) => m = n

RowsOf(rows, k, d) == {m \in rows : m.key = k /\ m.dataset_id = d}

LogOps(r, key) == {i \in DOMAIN log[r] : log[r][i].arg = PyStr(key)}

\* request r is the second of two successive successful size updates with
\* the same dataset_id and the same non-empty fields, and has returned
SecondSameUpdate(r) ==
    /\ pc[r] = "done"
    /\ handler[r] = "update_metadata"
    /\ resp[r].status = 200
    /\ prev = <<args[r]>>
    /\ args[r].raw_file_size # ""
    /\ args[r].last_size_update # ""
    /\ AtMostOnePerKey(db0[r].datasets_metadata)

\* C4: after two successive successful size updates with the same
\* dataset_id and non-empty values, on a table with at most one row per
\* (dataset_id, key), each of the two keys has exactly one row for the
\* dataset, the second call issued two UPDATEs and no INSERT, and the store
\* after the second call is the store after the first.
C4_UpsertIdempotent ==
    \A r \in Reqs : SecondSameUpdate(r) =>
        /\ \A k \in {KeySize, KeyLast} :
              Cardinality(RowsOf(db.datasets_metadata, k, args[r].dataset_id)) = 1
        /\ \A i \in DOMAIN log[r] : log[r][i].op # "INSERT"
        /\ Cardinality({i \in DOMAIN log[r] : log[r][i].op = "UPDATE"}) = 2
        /\ db = db0[r]

C4_Witness ==
    \E r \in Reqs :
        /\ SecondSameUpdate(r)
        /\ \E i \in DOMAIN log[r] : log[r][i].op = "UPDATE"
        /\ \E row \in db.datasets_metadata : row.id >= DmSeedSeq

\* the rows of a table that request r's call has no business with
OtherRows(rows, a) ==
    {m \in rows : m.dataset_id # a.dataset_id \/ m.key \notin {KeySize, KeyLast}}

KeyRows(rows, k) == {m \in rows : m.key = k}

UpdateDone(r) == pc[r] = "done" /\ handler[r] = "update_metadata"

\* C9: update_metadata upserts its two keys independently.  An empty
\* raw_file_size leaves the size key unread and its rows as they were while
\* a non-empty last_size_update is still stored, and the other way round;
\* two empty fields leave the table unchanged; rows of other keys and of
\* other datasets are never changed.
C9_IndependentUpsert ==
    \A r \in Reqs : UpdateDone(r) =>
        LET a == args[r]
            old == db0[r].datasets_metadata
            new == db.datasets_metadata
        IN /\ a.raw_file_size = "" =>
                /\ LogOps(r, KeySize) = {}
                /\ KeyRows(new, KeySize) = KeyRows(old, KeySize)
           /\ a.last_size_update = "" =>
                /\ LogOps(r, KeyLast) = {}
                /\ KeyRows(new, KeyLast) = KeyRows(old, KeyLast)
           /\ (resp[r].status = 200 /\ a.last_size_update # "") =>
                \E m \in RowsOf(new, KeyLast, a.dataset_id) : m.value = a.last_size_update
           /\ (resp[r].status = 200 /\ a.raw_file_size # "") =>
                \E m \in RowsOf(new, KeySize, a.dataset_id) : m.value = a.raw_file_size
           /\ (a.raw_file_size = "" /\ a.last_size_update = "") => new = old
           /\ OtherRows(new, a) = OtherRows(old, a)

\* a call with an empty raw_file_size and a non-empty last_size_update
\* returned, on a table that holds a size row, a row of another key and a
\* row of another dataset
C9_Witness ==
    \E r \in Reqs :
        /\ UpdateDone(r)
        /\ resp[r].status = 200
        /\ args[r].raw_file_size = ""
        /\ args[r].last_size_update # ""
        /\ RowsOf(db.datasets_metadata, KeySize, args[r].dataset_id) # {}
        /\ \E m \in db.datasets_metadata : m.key \notin {KeySize, KeyLast}
        /\ \E m \in db.datasets_metadata : m.dataset_id # args[r].dataset_id

GdmDone(r) == pc[r] = "done" /\ handler[r] = "get_dataset_with_metadata"

\* C7: get_dataset_with_metadata answers 404 exactly when no datasets row
\* has both the id and the project_id (unless the store failed first); the
\* 404 is sent as 404, with no metadata query issued; when the row exists
\* the response is the dataset with all datasets_metadata rows of that id.
C7_NotFound ==
    \A r \in Reqs : GdmDone(r) =>
        LET a == args[r]
            exists == \E d \in db.datasets :
                        d.id = a.dataset_id /\ d.project_id = a.project_id
            metadata == {m \in db.datasets_metadata : m.dataset_id = a.dataset_id}
        IN /\ resp[r].status = 404 => ~exists
           /\ (~exists /\ fault[r].kind = "none") =>
                /\ resp[r].status = 404
                /\ \A i \in DOMAIN log[r] : log[r][i].tbl # "datasets_metadata"
           /\ (exists /\ fault[r].kind = "none") =>
                /\ resp[r].status = 200
                /\ resp[r].body.id = a.dataset_id
                /\ resp[r].body.project_id = a.project_id
                /\ Range(resp[r].body.metadata) = metadata
                /\ Len(resp[r].body.metadata) = Cardinality(metadata)

\* a 404 for a dataset that exists under another project
C7_Witness ==
    \E r \in Reqs :
        /\ GdmDone(r)
        /\ resp[r].status = 404
        /\ \E d \in db.datasets : d.id = args[r].dataset_id

(***************************************************************************)
(* Properties of every handler.                                            *)
(***************************************************************************)
Done(r) == pc[r] = "done"

\* C1: when a handler has ended, by return, by the 500 of a failed
\* statement or by the 404 of get_dataset_with_metadata, the connection
\* the request opened is closed.
C1_ConnectionReleased == \A r \in Reqs : Done(r) => conn[r] # "open"

\* C6 as claimed: every store-layer failure, of the connection or of a
\* statement, ends the request with status 500 and the detail
\* "Database error: <message>".
C6_OneMessage ==
    \A r \in Reqs : (Done(r) /\ fault[r].kind # "none") =>
        /\ resp[r].status = 500
        /\ resp[r].detail = <<"Database error: ", fault[r].msg>>

\* C6 as amended: every store-layer failure ends the request with status
\* 500 and the store's message; a failed statement is reported as
\* "Database error: <message>" and a failed connection as
\* "Database connection error: <message>".
C6_StoreFailure ==
    \A r \in Reqs : (Done(r) /\ fault[r].kind # "none") =>
        /\ resp[r].status = 500
        /\ fault[r].kind = "query" =>
              resp[r].detail = <<"Database error: ", fault[r].msg>>
        /\ fault[r].kind = "connect" =>
              resp[r].detail = <<"Database connection error: ", fault[r].msg>>

\* a statement of a request that writes has failed after the connection
\* was opened
C6_Witness ==
    \E r \in Reqs :
        /\ Done(r)
        /\ fault[r].kind = "query"
        /\ handler[r] = "add_raw_files"
        /\ log[r] # <<>>

(***************************************************************************)
(* Properties of get_patients_metadata and get_samples_per_patient.        *)
(***************************************************************************)
\* the elements of a finite set of numbers, ascending
Ascending(S) == CHOOSE s \in Orders(S) : \A i, j \in DOMAIN s : i < j => s[i] < s[j]

\* the parents whose join rows a request reads
ParentsOf(r) ==
    IF handler[r] = "get_patients_metadata"
    THEN {p \in db.patients :
            /\ p.project_id = args[r].project_id
            /\ args[r].patient_id # 0 => p.id = args[r].patient_id}
    ELSE {x \in db.samples :
            /\ \E p \in db.patients : p.id = x.patient_id /\ p.project_id = args[r].project_id
            /\ args[r].sample_id # 0 => x.id = args[r].sample_id}

ChildrenOf(r, parent) ==
    IF handler[r] = "get_patients_metadata"
    THEN {m \in db.patients_metadata : m.patient_id = parent.id}
    ELSE {m \in db.samples_metadata : m.sample_id = parent.id}

\* a grouping request has ended and the store did not fail
Grouped(r) ==
    /\ Done(r)
    /\ handler[r] \in {"get_patients_metadata", "get_samples_per_patient"}
    /\ fault[r].kind = "none"

\* C2: the join rows of K parents, each parent's rows together, are
\* grouped into exactly K records, one per parent, in the order in which
\* the parents first appear.
C2_GroupedInOrder ==
    \A r \in Reqs : Grouped(r) =>
        /\ resp[r].status = 200
        /\ [i \in DOMAIN resp[r].body |-> resp[r].body[i].id]
             = [i \in 1..Cardinality(ParentsOf(r)) |->
                   PyInt(Ascending({p.id : p \in ParentsOf(r)})[i])]

\* C3: a parent without metadata rows, one join row of null child
\* columns, yields exactly one record with an empty metadata list, and the
\* handler does not fail.
C3_ChildlessParent ==
    \A r \in Reqs : Grouped(r) =>
        \A parent \in ParentsOf(r) : ChildrenOf(r, parent) = {} =>
            /\ resp[r].status = 200
            /\ Cardinality({i \in DOMAIN resp[r].body :
                               resp[r].body[i].id = PyInt(parent.id)}) = 1
            /\ \A i \in DOMAIN resp[r].body :
                  resp[r].body[i].id = PyInt(parent.id) => resp[r].body[i].metadata = <<>>

\* C10: get_patients_metadata returns every patient of the request, has
\* issued one samples query per returned patient, and each patient's
\* samples are the samples of that patient, in ascending id, each with its
\* own metadata rows.
C10_SamplesPerPatient ==
    \A r \in Reqs : (Grouped(r) /\ handler[r] = "get_patients_metadata") =>
        /\ resp[r].status = 200
        /\ Len(resp[r].body) = Cardinality(ParentsOf(r))
        /\ Cardinality({i \in DOMAIN log[r] : log[r][i].tbl = "samples"})
             = Len(resp[r].body)
        /\ \A i \in DOMAIN resp[r].body :
              LET patient == resp[r].body[i]
                  own == {x \in db.samples : PyInt(x.patient_id) = patient.id}
              IN /\ [n \in DOMAIN patient.samples |-> patient.samples[n].id]
                      = [n \in 1..Cardinality(own) |-> PyInt(Ascending(Ids(own))[n])]
                 /\ \A n \in DOMAIN patient.samples :
                       {m.id : m \in Range(patient.samples[n].metadata)}
                         = {PyInt(m.id) : m \in {m \in db.samples_metadata :
                                                   PyInt(m.sample_id) = patient.samples[n].id}}

(***************************************************************************)
(* Properties of get_raw_files_with_metadata.                              *)
(***************************************************************************)
GrfDone(r) == Done(r) /\ handler[r] = "get_raw_files_with_metadata"

\* the sample_id entries of the files of the requested dataset
LinkEntries(r) ==
    {k \in DOMAIN db.files_metadata :
        /\ db.files_metadata[k].metadata_key = "sample_id"
        /\ \E f \in db.files : /\ f.id = db.files_metadata[k].raw_file_id
                                /\ f.dataset_id = args[r].dataset_id}

LinkValue(k) == db.files_metadata[k].metadata_value

Resolves(v) == IsNumeric(v) /\ \E x \in db.samples : x.id = DecimalValue(Chars(v))

BodyFileIds(r) == {resp[r].body[i].id.v : i \in DOMAIN resp[r].body}

C8_MalformedFails ==
    \A r \in Reqs :
        (GrfDone(r) /\ \E k \in LinkEntries(r) : ~IsNumeric(LinkValue(k))) =>
            resp[r].status = 500

(***************************************************************************)
(* Properties of add_raw_files.                                            *)
(***************************************************************************)
\* add_raw_files has ended because an INSERT failed after at least one
\* INSERT of the batch had succeeded
ArfFailedMidBatch(r) ==
    /\ Done(r)
    /\ handler[r] = "add_raw_files"
    /\ fault[r].kind = "query"
    /\ log[r] # <<>>
    /\ loc[r].i <= Len(args[r].raw_files)

\* the ids of the files the request inserted before the failure
ArfInsertedIds(r) ==
    {log[r][n].arg.v : n \in {n \in DOMAIN log[r] : log[r][n].tbl = "files"}}

\* C11 as claimed: when an INSERT of add_raw_files fails partway through
\* the batch, the request fails with HTTP 500 and the rows inserted before
\* the failure are committed in the store.
C11_PartialRowsCommitted ==
    \A r \in Reqs : ArfFailedMidBatch(r) =>
        /\ resp[r].status = 500
        /\ \A id \in ArfInsertedIds(r) : \E f \in db.files : f.id = id

\* C11 as amended: when an INSERT of add_raw_files fails partway through
\* the batch, the request fails with HTTP 500 "Database error: <message>"
\* and nothing of the batch is committed: the committed files and
\* files_metadata are those from before the request, and the rows inserted
\* before the failure exist only in the request's uncommitted transaction.
\* The ids those rows drew from the files sequence stay consumed.
C11_NothingCommitted ==
    \A r \in Reqs : ArfFailedMidBatch(r) =>
        /\ resp[r].status = 500
        /\ resp[r].detail = <<"Database error: ", fault[r].msg>>
        /\ db.files = db0[r].files
        /\ db.files_metadata = db0[r].files_metadata
        /\ \A id \in ArfInsertedIds(r) :
              /\ ~ \E f \in db.files : f.id = id
              /\ \E f \in tx[r].files : f.id = id
              /\ id < db.files_seq

\* an INSERT has failed after a file and a metadata row of the batch were
\* inserted, on a store that already holds a committed file
C11_Witness ==
    \E r \in Reqs :
        /\ ArfFailedMidBatch(r)
        /\ tx[r].files # {}
        /\ tx[r].files_metadata # <<>>
        /\ db.files # {}

(***************************************************************************)
(* Properties of overlapping update_metadata requests.                     *)
(***************************************************************************)
\* C12: under every interleaving of concurrent update_metadata requests
\* for the same dataset_id, from a store with no row for a key, the
\* committed datasets_metadata holds at most one row per dataset_id and
\* key.
C12_OneRowPerKey ==
    \A d \in DatasetIds, k \in {KeySize, KeyLast} :
        Cardinality(RowsOf(db.datasets_metadata, k, d)) <= 1

====
